---- MODULE Spec2Model ----
(***************************************************************************)
(* The codeguard CLI scan command (runScan and its three reporters,        *)
(* outputPretty / outputJSON / outputSARIF), the backend route             *)
(* POST /api/cli/scan that produces the response the reporters consume,    *)
(* the report-file parser parseReportFile, wrapText as a function of its   *)
(* own, and the file collector behind scanner.Scan; of the backend, the    *)
(* file-content, share-token and issues-by-file routes, the middleware     *)
(* requireAuth and requireWriteAccess and calculateGrade, one request per  *)
(* behaviour; of the frontend, the AuthProvider's fetchAuth,               *)
(* refreshAuth and setCurrentWorkspace.                                    *)
(*                                                                         *)
(* Text is modelled character by character: a string is a sequence over    *)
(* Chars, where BS, DQ, NL, TAB and CR stand for backslash, double quote,  *)
(* newline, tab and carriage return and "a", "n", "t" are ordinary         *)
(* letters.  A printed document is modelled by the values its Printf calls *)
(* write, in the order they write them, together with the closing line     *)
(* ("}," or "}") each array entry is terminated with.                      *)
(***************************************************************************)
EXTENDS Integers, Sequences, FiniteSets, TLC

\* ------------------------------------------------------------- bounds
MaxIssues == 3      \* longest issue list of the agent's reply
MaxStrLen == 2      \* longest free-text field of the text specification
MaxLine   == 2      \* line numbers range over -1..MaxLine and {5, 10}
MaxFiles  == 1      \* files the collector finds in the scanned directory
MaxSeverityIssues == 4  \* longest issue list of the severity specification
MaxTreeFiles == 3   \* files of a directory tree of the collector specification
MaxWrapLen == 5     \* longest text given to wrapText
MaxCritical == 6     \* most critical issues given to calculateGrade
MaxOther  == 2      \* most issues of each other severity given to calculateGrade
MaxGroupIssues == 3 \* most issues of a repository of the by-file routes
MaxPending == 2     \* most fetchAuth calls awaiting their response at once
MaxWorkspaces == 2  \* most workspaces /auth/me returns
MaxSegments == 2    \* most segments of a requested file path
MaxTime   == 2      \* times (expiry, now) range over 0..MaxTime
MaxWidth  == 3      \* widest column given to wrapText

\* -------------------------------------------------------------- text
BS  == "BS"
DQ  == "DQ"
NL  == "NL"
TAB == "TAB"
CR  == "CR"
Chars == {"a", "n", "t", BS, DQ, NL, TAB, CR}

RECURSIVE StringsUpTo(_)
StringsUpTo(n) ==
  IF n = 0 THEN {<<>>}
  ELSE LET shorter == StringsUpTo(n - 1)
       IN  shorter \cup {Append(s, c) : s \in {x \in shorter : Len(x) = n - 1}, c \in Chars}

\* strings.ReplaceAll(s, old, new) for a one-character old
RECURSIVE ReplaceAll(_, _, _)
ReplaceAll(s, old, new) ==
  IF s = <<>> THEN <<>>
  ELSE (IF Head(s) = old THEN new ELSE <<Head(s)>>) \o ReplaceAll(Tail(s), old, new)

escapeJSONBackslashLast(s) ==
  LET s1 == ReplaceAll(s, DQ, <<BS, DQ>>)
      s2 == ReplaceAll(s1, NL, <<BS, "n">>)
      s3 == ReplaceAll(s2, TAB, <<BS, "t">>)
  IN  ReplaceAll(s3, BS, <<BS, BS>>)

escapeJSON(s) ==
  LET s1 == ReplaceAll(s, BS, <<BS, BS>>)
      s2 == ReplaceAll(s1, DQ, <<BS, DQ>>)
      s3 == ReplaceAll(s2, NL, <<BS, "n">>)
  IN  ReplaceAll(s3, TAB, <<BS, "t">>)

\* ---------------------------------------------------------- severity
Severities == {"critical", "high", "medium", "low"}

\* Go map lookup: a missing key yields the zero value, the empty string
severityToLevel(severity) ==
  CASE severity = "critical" -> "error"
    [] severity = "high"     -> "error"
    [] severity = "medium"   -> "warning"
    [] severity = "low"      -> "note"
    [] OTHER                 -> ""

severityToScore(severity) ==
  CASE severity = "critical" -> "9.0"
    [] severity = "high"     -> "7.0"
    [] severity = "medium"   -> "4.0"
    [] severity = "low"      -> "1.0"
    [] OTHER                 -> "0.0"

\* Go map lookup: a missing key yields the zero value 0
severityOrder(severity) ==
  CASE severity = "critical" -> 0
    [] severity = "high"     -> 1
    [] severity = "medium"   -> 2
    [] severity = "low"      -> 3
    [] OTHER                 -> 0

maxIntFirst(values) == values[1]

RECURSIVE maxIntFrom(_, _, _)
maxIntFrom(values, i, max) ==
  IF i > Len(values) THEN max
  ELSE maxIntFrom(values, i + 1, IF values[i] > max THEN values[i] ELSE max)

maxInt(values) == maxIntFrom(values, 2, values[1])

\* ------------------------------------------------------------ issues
\* interface Issue of the backend / api.Issue of the CLI.  lineEnd = 0 is an
\* absent lineEnd (the zero value of the Go int).
Issue(id, severity, category, title, description, filePath, lineStart, lineEnd, suggestion) ==
  [id |-> id, severity |-> severity, category |-> category, title |-> title,
   description |-> description, filePath |-> filePath, lineStart |-> lineStart,
   lineEnd |-> lineEnd, suggestion |-> suggestion]

\* What the agent may put in a severity field: the model's reply is free text,
\* so a value outside the enumeration ("info") can occur.
AgentSeverities == Severities \cup {"info"}

Ids == {<<"a">>, <<"n">>}

Txt(i) == [k \in 1..i |-> "a"]

\* issue number i of a reply: id and severity are free, the other fields are
\* distinct from those of every other position of the list
OrderIssue(i, id, severity) ==
  Issue(id, severity, <<"n">> \o Txt(i), Txt(i), <<"t">> \o Txt(i),
        IF i % 2 = 1 THEN <<"a">> ELSE <<>>, i, 0, <<>>)

OrderIssueLists ==
  UNION {{[i \in 1..n |-> OrderIssue(i, c[i][1], c[i][2])] :
            c \in [1..n -> Ids \X AgentSeverities]} : n \in 0..MaxIssues}

Lines == (-1..MaxLine) \cup {5, 10}

LineIssueLists ==
  {<<>>} \cup
  {<<Issue(<<"a">>, "high", <<"n">>, <<"a">>, <<"t">>, <<"a">>, ls, le, <<>>)>> :
     ls \in Lines, le \in Lines}

\* issue number i of a reply whose severity alone is free
SeverityIssue(i, severity) ==
  Issue(<<"a">>, severity, <<"n">>, Txt(i), <<"t">>, <<"a">>, i, 0, <<>>)

SeverityIssueLists ==
  UNION {{[i \in 1..n |-> SeverityIssue(i, c[i])] : c \in [1..n -> AgentSeverities]} :
           n \in 0..MaxSeverityIssues}

FilePaths == {<<>>, <<"a">>, <<"n">>}

\* issue number i of a reply whose file and severity (critical or low) are free
FileIssue(i, filePath, severity) ==
  Issue(<<"a">>, severity, <<"n">>, Txt(i), <<"t">>, filePath, i, 0, <<>>)

FileIssueLists ==
  UNION {{[i \in 1..n |-> FileIssue(i, c[i][1], c[i][2])] :
            c \in [1..n -> FilePaths \X {"critical", "low"}]} : n \in 0..MaxIssues}

TextFields == {"id", "category", "title", "description", "filePath"}

TextIssueLists ==
  {<<>>} \cup
  {<<[Issue(<<"a">>, "high", <<"n">>, <<"a">>, <<"t">>, <<"a">>, 1, 0, <<>>)
        EXCEPT ![f] = s]>> : f \in TextFields, s \in StringsUpTo(MaxStrLen)}

\* ----------------------------------------------------------- backend
CountSeverity(issues, severity) ==
  Cardinality({i \in 1..Len(issues) : issues[i].severity = severity})

scoreOf(issues) ==
  CountSeverity(issues, "critical") * 10 + CountSeverity(issues, "high") * 5
    + CountSeverity(issues, "medium") * 2 + CountSeverity(issues, "low") * 1

gradeOfStrict(score) ==
  IF score = 0 THEN "A"
  ELSE IF score < 5 THEN "A"
  ELSE IF score < 15 THEN "B"
  ELSE IF score < 30 THEN "C"
  ELSE IF score < 60 THEN "D"
  ELSE "F"

gradeOf(score) ==
  IF score = 0 THEN "A"
  ELSE IF score <= 5 THEN "A"
  ELSE IF score <= 15 THEN "B"
  ELSE IF score <= 30 THEN "C"
  ELSE IF score <= 60 THEN "D"
  ELSE "F"

calculateGrade(issues) == [grade |-> gradeOf(scoreOf(issues)), score |-> scoreOf(issues)]

NoBody == [issues |-> <<>>, grade |-> "", score |-> 0, filesScanned |-> 0]

\* A reply of the model: the API call fails ("apiError"), the message has no
\* text block ("noText"), the text is no JSON ("unparseable"), it is the JSON
\* text null, from which reading .issues throws ("jsonNull"), or it is a JSON
\* object whose issues array is r.issues ("json").
Reply(kind, issues) == [kind |-> kind, issues |-> issues]

ReplyKinds == {"apiError", "noText", "unparseable", "jsonNull", "json"}

\* JSON.parse of the reply text inside the inner try/catch
analysisIssues(r) == IF r.kind = "json" THEN r.issues ELSE <<>>

\* router.post('/scan'): the status and body it answers with
scanRoute(nFiles, r) ==
  IF nFiles = 0
    THEN [status |-> 400, body |-> NoBody]
  ELSE IF r.kind \in {"apiError", "noText", "jsonNull"}
    THEN [status |-> 500, body |-> NoBody]
  ELSE [status |-> 200,
        body |-> [issues |-> analysisIssues(r),
                  grade |-> calculateGrade(analysisIssues(r)).grade,
                  score |-> calculateGrade(analysisIssues(r)).score,
                  filesScanned |-> nFiles]]

\* issueSchema / reportSchema: every issue must carry an enumerated severity
reportSchemaAccepts(issues) ==
  \A i \in 1..Len(issues) : issues[i].severity \in Severities

\* parseReportFile over a report file holding the reply
parseReportFile(r) ==
  IF r.kind # "json" THEN [status |-> "invalidJSON", issues |-> <<>>]
  ELSE IF ~reportSchemaAccepts(r.issues) THEN [status |-> "invalidFormat", issues |-> <<>>]
  ELSE [status |-> "ok", issues |-> r.issues]

\* --------------------------------------------------- Go library behaviour
Injective(f) == \A i, j \in DOMAIN f : i # j => f[i] # f[j]

\* the orders in which a range over a Go map with key set S may visit the keys
MapOrders(S) == {q \in [1..Cardinality(S) -> S] : Injective(q)}

less(a, b) == severityOrder(a.severity) < severityOrder(b.severity)

\* sort.Slice(issues, less): the slice is left sorted by less; package sort
\* documents that the order of equal elements is not guaranteed to be kept
sortSlice(issues) ==
  {[k \in 1..Len(issues) |-> issues[p[k]]] :
     p \in {q \in MapOrders(1..Len(issues)) :
              \A i, j \in 1..Len(issues) : i < j => ~less(issues[q[j]], issues[q[i]])}}

\* ------------------------------------------------------------ outputJSON
jsonIssue(issues, i) ==
  [severity |-> issues[i].severity,
   title |-> escapeJSON(issues[i].title),
   file |-> issues[i].filePath,
   line |-> issues[i].lineStart,
   description |-> escapeJSON(issues[i].description),
   close |-> IF i < Len(issues) THEN "}," ELSE "}"]

outputJSON(resp) ==
  [printed |-> TRUE,
   grade |-> resp.grade,
   filesScanned |-> resp.filesScanned,
   issueCount |-> Len(resp.issues),
   issues |-> [i \in 1..Len(resp.issues) |-> jsonIssue(resp.issues, i)]]

EmptyJSON ==
  [printed |-> FALSE, grade |-> "", filesScanned |-> 0, issueCount |-> 0, issues |-> <<>>]

\* ----------------------------------------------------------- outputSARIF
\* fmt.Sprintf("%v", issue.ID) of a string id is the id
ruleIDOf(issue) == issue.id

NoRules == [k \in {} |-> k]

RECURSIVE ruleMapLastWins(_, _, _)
ruleMapLastWins(issues, i, m) ==
  IF i > Len(issues) THEN m
  ELSE ruleMapLastWins(issues, i + 1,
         [k \in DOMAIN m \cup {ruleIDOf(issues[i])} |->
            IF k = ruleIDOf(issues[i]) THEN issues[i] ELSE m[k]])

\* the loop that fills ruleMap, from issue i on: the first issue of an id stays
RECURSIVE buildRuleMap(_, _, _)
buildRuleMap(issues, i, m) ==
  IF i > Len(issues) THEN m
  ELSE buildRuleMap(issues, i + 1,
         IF ruleIDOf(issues[i]) \in DOMAIN m THEN m
         ELSE [k \in DOMAIN m \cup {ruleIDOf(issues[i])} |->
                 IF k = ruleIDOf(issues[i]) THEN issues[i] ELSE m[k]])

\* entry number k of the rules array, for the map entry (ruleID, issue)
sarifRule(ruleID, issue, k, ruleCount) ==
  [id |-> escapeJSON(ruleID),
   name |-> escapeJSON(issue.title),
   shortDescription |-> escapeJSON(issue.title),
   fullDescription |-> escapeJSON(issue.description),
   level |-> severityToLevel(issue.severity),
   securitySeverity |-> severityToScore(issue.severity),
   category |-> escapeJSON(issue.category),
   close |-> IF k < ruleCount THEN "}," ELSE "}"]

sarifResult(issues, i) ==
  [ruleId |-> escapeJSON(ruleIDOf(issues[i])),
   level |-> severityToLevel(issues[i].severity),
   message |-> escapeJSON(issues[i].description),
   uri |-> escapeJSON(issues[i].filePath),
   startLine |-> maxInt(<<issues[i].lineStart, 1>>),
   endLine |-> maxInt(<<issues[i].lineEnd, issues[i].lineStart, 1>>),
   close |-> IF i < Len(issues) THEN "}," ELSE "}"]

sarifResultsDeduplicated(issues) ==
  LET firsts == {i \in 1..Len(issues) :
                   \A j \in 1..(i - 1) : ruleIDOf(issues[j]) # ruleIDOf(issues[i])}
      pos == CHOOSE q \in [1..Cardinality(firsts) -> firsts] :
               \A a, b \in 1..Cardinality(firsts) : a < b => q[a] < q[b]
  IN  [k \in 1..Cardinality(firsts) |-> sarifResult(issues, pos[k])]

sarifResults(issues) == [i \in 1..Len(issues) |-> sarifResult(issues, i)]

\* order: the order in which the range over ruleMap visits its keys
outputSARIF(resp, order) ==
  LET ruleMap == buildRuleMap(resp.issues, 1, NoRules)
      ruleCount == Cardinality(DOMAIN ruleMap)
  IN  [printed |-> TRUE,
       schema |-> "https://json.schemastore.org/sarif-2.1.0.json",
       version |-> "2.1.0",
       rules |-> [k \in 1..ruleCount |-> sarifRule(order[k], ruleMap[order[k]], k, ruleCount)],
       results |-> sarifResults(resp.issues)]

EmptySARIF ==
  [printed |-> FALSE, schema |-> "", version |-> "", rules |-> <<>>, results |-> <<>>]

\* ---------------------------------------------------------- outputPretty
\* the four counts the summary panel prints
prettyCounts(issues) == [s \in Severities |-> CountSeverity(issues, s)]

filterNothing(issues, all) == issues

filterBelowHigh(issues, all) ==
  IF all THEN issues
  ELSE LET Kept(issue) == issue.severity \notin {"low", "medium"} IN SelectSeq(issues, Kept)

\* the issues the detailed listing is built from
filterIssues(issues, all) ==
  IF all THEN issues
  ELSE LET NotLow(issue) == issue.severity # "low" IN SelectSeq(issues, NotLow)

locationEndAtLeast(issue) ==
  IF issue.lineStart > 0
    THEN IF issue.lineEnd >= issue.lineStart
           THEN [form |-> "range", start |-> issue.lineStart, end |-> issue.lineEnd]
           ELSE [form |-> "single", start |-> issue.lineStart, end |-> 0]
    ELSE [form |-> "none", start |-> 0, end |-> 0]

location(issue) ==
  IF issue.lineStart > 0
    THEN IF issue.lineEnd > issue.lineStart
           THEN [form |-> "range", start |-> issue.lineStart, end |-> issue.lineEnd]
           ELSE [form |-> "single", start |-> issue.lineStart, end |-> 0]
    ELSE [form |-> "none", start |-> 0, end |-> 0]

prettyEntry(issue) ==
  [badge |-> issue.severity, title |-> issue.title, location |-> location(issue),
   suggestion |-> issue.suggestion]

byFileAll(sorted, file) == sorted

\* byFile[file]: the sorted issues of that file, in sorted order
byFile(sorted, file) ==
  LET OfFile(issue) == issue.filePath = file IN SelectSeq(sorted, OfFile)

FilesOf(issues) == {issues[i].filePath : i \in 1..Len(issues)}

EmptyPretty ==
  [printed |-> FALSE, counts |-> [s \in Severities |-> 0], success |-> FALSE,
   notice |-> [printed |-> FALSE, shown |-> 0, hidden |-> 0], sections |-> <<>>]

outputPrettyNoEarlyReturn(resp, all, sorted, fileOrder) ==
  [printed |-> TRUE,
   counts |-> prettyCounts(resp.issues),
   success |-> FALSE,
   notice |-> [printed |-> FALSE, shown |-> 0, hidden |-> 0],
   sections |-> [k \in 1..Len(fileOrder) |->
                   [file |-> fileOrder[k],
                    issues |-> [n \in 1..Len(byFile(sorted, fileOrder[k])) |->
                                  prettyEntry(byFile(sorted, fileOrder[k])[n])]]]]

\* sorted: what sort.Slice left in issues; fileOrder: the order in which the
\* range over byFile visits the files
outputPretty(resp, all, sorted, fileOrder) ==
  IF Len(resp.issues) = 0
    THEN [EmptyPretty EXCEPT !.printed = TRUE, !.counts = prettyCounts(resp.issues),
                             !.success = TRUE]
  ELSE LET issues == filterIssues(resp.issues, all)
       IN  [printed |-> TRUE,
            counts |-> prettyCounts(resp.issues),
            success |-> FALSE,
            notice |-> IF ~all /\ Len(issues) < Len(resp.issues)
                         THEN [printed |-> TRUE, shown |-> Len(issues),
                               hidden |-> Len(resp.issues) - Len(issues)]
                         ELSE [printed |-> FALSE, shown |-> 0, hidden |-> 0],
            sections |-> [k \in 1..Len(fileOrder) |->
                            [file |-> fileOrder[k],
                             issues |-> [n \in 1..Len(byFile(sorted, fileOrder[k])) |->
                                           prettyEntry(byFile(sorted, fileOrder[k])[n])]]]]

\* -------------------------------------------------------------- wrapText
SP == "SP"

\* unicode.IsSpace over the characters at hand
IsSpace(c) == c \in {SP, NL, TAB, CR}

\* strings.Fields(text), from character i on: word is the field being read
RECURSIVE FieldsFrom(_, _, _, _)
FieldsFrom(text, i, word, words) ==
  IF i > Len(text)
    THEN IF word = <<>> THEN words ELSE Append(words, word)
  ELSE IF IsSpace(text[i])
    THEN FieldsFrom(text, i + 1, <<>>, IF word = <<>> THEN words ELSE Append(words, word))
  ELSE FieldsFrom(text, i + 1, Append(word, text[i]), words)

Fields(text) == FieldsFrom(text, 1, <<>>, <<>>)

\* a letter outside ASCII, which UTF-8 encodes in two bytes
EAcute == "EAcute"

\* len(s) and strings.Builder.Len(): the number of bytes of the UTF-8 text
RECURSIVE byteLen(_)
byteLen(s) ==
  IF s = <<>> THEN 0
  ELSE (IF Head(s) = EAcute THEN 2 ELSE 1) + byteLen(Tail(s))

RECURSIVE wrapLoopNoSpace(_, _, _, _, _)
wrapLoopNoSpace(words, i, lines, currentLine, width) ==
  IF i > Len(words)
    THEN IF byteLen(currentLine) > 0 THEN Append(lines, currentLine) ELSE lines
  ELSE LET flush == byteLen(currentLine) > 0
                      /\ byteLen(currentLine) + 1 + byteLen(words[i]) > width
       IN  wrapLoopNoSpace(words, i + 1,
                           IF flush THEN Append(lines, currentLine) ELSE lines,
                           (IF flush THEN <<>> ELSE currentLine) \o words[i], width)

\* the loop of wrapText over words, from word i on, and the final flush
RECURSIVE wrapLoop(_, _, _, _, _)
wrapLoop(words, i, lines, currentLine, width) ==
  IF i > Len(words)
    THEN IF byteLen(currentLine) > 0 THEN Append(lines, currentLine) ELSE lines
  ELSE LET flush == byteLen(currentLine) > 0
                      /\ byteLen(currentLine) + 1 + byteLen(words[i]) > width
           lines1 == IF flush THEN Append(lines, currentLine) ELSE lines
           line1 == IF flush THEN <<>> ELSE currentLine
           line2 == IF byteLen(line1) > 0 THEN Append(line1, SP) ELSE line1
       IN  wrapLoop(words, i + 1, lines1, line2 \o words[i], width)

\* strings.Join(lines, sep)
RECURSIVE Join(_, _)
Join(lines, sep) ==
  IF Len(lines) = 0 THEN <<>>
  ELSE IF Len(lines) = 1 THEN lines[1]
  ELSE lines[1] \o sep \o Join(Tail(lines), sep)

wrapText(text, width) ==
  IF Len(Fields(text)) = 0 THEN <<>>
  ELSE Join(wrapLoop(Fields(text), 1, <<>>, <<>>, width), <<NL>>)

WrapChars == {"a", "n", EAcute, SP, NL}

RECURSIVE WrapTextsUpTo(_)
WrapTextsUpTo(n) ==
  IF n = 0 THEN {<<>>}
  ELSE LET shorter == WrapTextsUpTo(n - 1)
       IN  shorter \cup {Append(s, c) : s \in {x \in shorter : Len(x) = n - 1}, c \in WrapChars}

\* ---------------------------------------------------------- file collector
\* the size above which the collector skips a file
FileSizeLimit == 2

\* a regular file of the scanned tree: whether it lies in an excluded
\* directory, and its size
TreeFile(pruned, size) == [pruned |-> pruned, size |-> size]

RECURSIVE TreesUpTo(_)
TreesUpTo(n) ==
  IF n = 0 THEN {<<>>}
  ELSE LET shorter == TreesUpTo(n - 1)
       IN  shorter \cup {Append(t, TreeFile(p, z)) :
                          t \in {x \in shorter : Len(x) = n - 1},
                          p \in BOOLEAN, z \in 0..(FileSizeLimit + 1)}

\* scanner.Scan: the files submitted, in walk order, and the skipped count
scannerScan(tree) ==
  LET Eligible(f) == ~f.pruned /\ f.size <= FileSizeLimit
      TooLarge(f) == ~f.pruned /\ f.size > FileSizeLimit
  IN  [files |-> SelectSeq(tree, Eligible), skipped |-> Len(SelectSeq(tree, TooLarge))]

\* a tree with nFiles files within the limit and skipped files above it
TreeOf(nFiles, skipped) ==
  [k \in 1..nFiles |-> TreeFile(FALSE, 0)]
    \o [k \in 1..skipped |-> TreeFile(FALSE, FileSizeLimit + 1)]

\* ------------------------------------------------------- backend: paths
\* A path is the sequence of its segments; a segment is a name (a sequence of
\* characters) or DotDot.  pathString is the text path.join and path.normalize
\* return for it, on which startsWith works character by character.
DotDot == <<".", ".">>

SL == "/"

\* no path: repo.localPath null or empty
NoPath == <<>>

PathNames == {<<"a">>, <<"a", "a">>, <<"n">>}

RECURSIVE PathsUpTo(_, _)
PathsUpTo(segments, n) ==
  IF n = 0 THEN {<<>>}
  ELSE PathsUpTo(segments, n - 1) \cup
       {Append(q, g) : q \in {x \in PathsUpTo(segments, n - 1) : Len(x) = n - 1},
                       g \in segments}

\* repo.localPath: an absolute directory one or two names deep
LocalPaths == PathsUpTo(PathNames, 2) \ {<<>>}

\* the text after /files/ of the request URL
RequestedPaths == PathsUpTo(PathNames \cup {DotDot}, MaxSegments)

RECURSIVE pathNormalizeFrom(_, _)
pathNormalizeFrom(segments, done) ==
  IF segments = <<>> THEN done
  ELSE IF Head(segments) = DotDot
    THEN pathNormalizeFrom(Tail(segments),
                           IF done = <<>> THEN <<>> ELSE SubSeq(done, 1, Len(done) - 1))
  ELSE pathNormalizeFrom(Tail(segments), Append(done, Head(segments)))

\* path.normalize of an absolute path
pathNormalize(segments) == pathNormalizeFrom(segments, <<>>)

\* path.join(localPath, filePath): the segments of both, normalized
pathJoin(localPath, filePath) == pathNormalize(localPath \o filePath)

RECURSIVE pathString(_)
pathString(segments) ==
  IF segments = <<>> THEN <<>>
  ELSE <<SL>> \o Head(segments) \o pathString(Tail(segments))

\* String.prototype.startsWith
startsWith(text, prefix) ==
  /\ Len(text) >= Len(prefix)
  /\ SubSeq(text, 1, Len(prefix)) = prefix

\* the paths fs.readFile was called with: none
NoRead == <<>>

FileAnswer(status, error, read) == [status |-> status, error |-> error, read |-> read]

\* the body of both file-content routes from the filePath test on; fsKind is
\* what lies at the path fs.readFile is given: a file, nothing or a directory
fileContent(localPath, filePath, fsKind) ==
  IF filePath = <<>> THEN FileAnswer(400, "File path is required", NoRead)
  ELSE IF localPath = NoPath THEN FileAnswer(400, "Repository not cloned yet", NoRead)
  ELSE LET fullPath == pathJoin(localPath, filePath)
           normalizedPath == pathNormalize(fullPath)
           normalizedRepoPath == pathNormalize(localPath)
       IN  IF ~startsWith(pathString(normalizedPath), pathString(normalizedRepoPath))
             THEN FileAnswer(400, "Invalid file path", NoRead)
           ELSE IF fsKind = "file" THEN FileAnswer(200, "", <<fullPath>>)
           ELSE IF fsKind = "missing" THEN FileAnswer(404, "File not found", <<fullPath>>)
           ELSE FileAnswer(400, "Path is a directory, not a file", <<fullPath>>)

FsKinds == {"file", "missing", "dir"}

\* ------------------------------------------------- backend: share tokens
\* The rows the middleware can find: the share of token "t", if there is one,
\* and the repositories 1 and 2.  A select returns the sequence of its rows.
Times == 0..MaxTime

\* expiresAt of a share that never expires (null)
NoExpiry == -1

ShareRows == [expiresAt : {NoExpiry} \cup Times, repositoryId : {1, 2}]

Dbs == [shares : {<<>>} \cup {<<r>> : r \in ShareRows}, repos : SUBSET {1, 2}]

Tokens == {"", "t", "u"}

\* db.select().from(repositoryShares).where(eq(token)).limit(1)
findShare(db, token) == IF token = "t" THEN db.shares ELSE <<>>

\* db.select().from(repositories).where(eq(id)).limit(1)
findRepo(db, id) == IF id \in db.repos THEN <<id>> ELSE <<>>

ShareAnswer(status, error) ==
  [status |-> status, error |-> error, next |-> FALSE, share |-> <<>>, repo |-> <<>>]

validateShareTokenNullExpires(db, token, now) ==
  IF token = "" THEN ShareAnswer(400, "Share token is required")
  ELSE IF findShare(db, token) = <<>>
    THEN ShareAnswer(404, "Share link not found or expired")
  ELSE IF findShare(db, token)[1].expiresAt < now
    THEN ShareAnswer(410, "Share link has expired")
  ELSE IF findRepo(db, findShare(db, token)[1].repositoryId) = <<>>
    THEN ShareAnswer(404, "Repository not found")
  ELSE [status |-> 0, error |-> "", next |-> TRUE, share |-> findShare(db, token),
        repo |-> findRepo(db, findShare(db, token)[1].repositoryId)]

\* validateShareToken: what it answers, or next with req.share and req.repo
validateShareToken(db, token, now) ==
  IF token = "" THEN ShareAnswer(400, "Share token is required")
  ELSE IF findShare(db, token) = <<>>
    THEN ShareAnswer(404, "Share link not found or expired")
  ELSE IF findShare(db, token)[1].expiresAt # NoExpiry /\ findShare(db, token)[1].expiresAt < now
    THEN ShareAnswer(410, "Share link has expired")
  ELSE IF findRepo(db, findShare(db, token)[1].repositoryId) = <<>>
    THEN ShareAnswer(404, "Repository not found")
  ELSE [status |-> 0, error |-> "", next |-> TRUE, share |-> findShare(db, token),
        repo |-> findRepo(db, findShare(db, token)[1].repositoryId)]

\* GET /:id/files/*
idFileContent(q) ==
  IF ~q.idValid THEN FileAnswer(400, "Invalid repository ID", NoRead)
  ELSE IF q.filePath = <<>> THEN FileAnswer(400, "File path is required", NoRead)
  ELSE IF ~q.repoFound THEN FileAnswer(404, "Repository not found", NoRead)
  ELSE fileContent(q.localPath, q.filePath, q.fsKind)

\* a route behind validateShareToken: the middleware, then the handler if the
\* middleware called next
behindShareToken(q, handled) ==
  LET mw == validateShareToken(q.db, q.token, q.now)
  IN  [mw |-> mw,
       answer |-> IF mw.next THEN handled ELSE FileAnswer(mw.status, mw.error, NoRead)]

\* GET /:token/files/*
tokenFileContent(q) == behindShareToken(q, fileContent(q.localPath, q.filePath, q.fsKind))

\* GET /:token/repo
tokenRepo(q) == behindShareToken(q, FileAnswer(200, "", NoRead))

GoodDb == [shares |-> <<[expiresAt |-> NoExpiry, repositoryId |-> 1]>>, repos |-> {1}]

IdFileRequests ==
  {[route |-> "idFiles", idValid |-> TRUE, repoFound |-> TRUE, localPath |-> l,
    filePath |-> f, fsKind |-> k] :
     l \in LocalPaths \cup {NoPath}, f \in RequestedPaths, k \in FsKinds}
  \cup {[route |-> "idFiles", idValid |-> v[1], repoFound |-> v[2], localPath |-> <<<<"a">>>>,
          filePath |-> f, fsKind |-> "file"] :
           v \in {<<FALSE, TRUE>>, <<TRUE, FALSE>>}, f \in {<<>>, <<<<"n">>>>}}

TokenFileRequests ==
  {[route |-> "tokenFiles", db |-> GoodDb, token |-> "t", now |-> 0, localPath |-> l,
    filePath |-> f, fsKind |-> k] :
     l \in LocalPaths \cup {NoPath}, f \in RequestedPaths, k \in FsKinds}
  \cup {[route |-> "tokenFiles", db |-> d, token |-> t, now |-> n, localPath |-> <<<<"a">>>>,
          filePath |-> <<<<"n">>>>, fsKind |-> "file"] :
           d \in Dbs, t \in Tokens, n \in Times}

TokenRepoRequests ==
  {[route |-> "tokenRepo", db |-> d, token |-> t, now |-> n] :
     d \in Dbs, t \in Tokens, n \in Times}

\* ------------------------------------------------- backend: middleware
\* req.workspaceRole as requireWorkspace left it: the role column of the
\* membership row (TEXT, no constraint), "" when it was never set
Roles == {"owner", "admin", "member", "viewer", "", "guest"}

MiddlewareAnswer(status, error) == [status |-> status, error |-> error, next |-> FALSE]

CallNext == [status |-> 0, error |-> "", next |-> TRUE]

requireWriteAccess(workspaceRole) ==
  IF workspaceRole = "" \/ workspaceRole = "viewer"
    THEN MiddlewareAnswer(403, "Write access required. Viewers have read-only access.")
  ELSE CallNext

WriteRequests == {[route |-> "write", workspaceRole |-> r] : r \in Roles}

\* a row of users, and what requireAuth copies of it into req.user
UserRow(id) == [id |-> id, email |-> id, name |-> id, avatarUrl |-> id, googleId |-> id]

reqUser(row) ==
  [id |-> row.id, email |-> row.email, name |-> row.name, avatarUrl |-> row.avatarUrl]

SessionRows == [expiresAt : Times, userId : {1, 2}]

\* the session of id "s", if there is one, and the users 1 and 2
AuthDbs == [sessions : {<<>>} \cup {<<r>> : r \in SessionRows}, users : SUBSET {1, 2}]

Cookies == {"", "s", "x"}

\* which of the two selects throws
DbErrors == {"none", "sessions", "users"}

findSession(db, sessionId) == IF sessionId = "s" THEN db.sessions ELSE <<>>

findUser(db, id) == IF id \in db.users THEN <<UserRow(id)>> ELSE <<>>

AuthAnswer(status, error, cleared) ==
  [status |-> status, error |-> error, next |-> FALSE, user |-> <<>>,
   cleared |-> cleared, sent |-> 1]

requireAuthNoExpiry(q) ==
  IF q.cookie = "" THEN AuthAnswer(401, "Authentication required", FALSE)
  ELSE IF q.dbError = "sessions" THEN AuthAnswer(500, "Internal server error", FALSE)
  ELSE IF findSession(q.db, q.cookie) = <<>>
    THEN AuthAnswer(401, "Session expired", TRUE)
  ELSE IF q.dbError = "users" THEN AuthAnswer(500, "Internal server error", FALSE)
  ELSE IF findUser(q.db, findSession(q.db, q.cookie)[1].userId) = <<>>
    THEN AuthAnswer(401, "User not found", TRUE)
  ELSE [status |-> 0, error |-> "", next |-> TRUE,
        user |-> <<reqUser(findUser(q.db, findSession(q.db, q.cookie)[1].userId)[1])>>,
        cleared |-> FALSE, sent |-> 0]

requireAuth(q) ==
  IF q.cookie = "" THEN AuthAnswer(401, "Authentication required", FALSE)
  ELSE IF q.dbError = "sessions" THEN AuthAnswer(500, "Internal server error", FALSE)
  ELSE IF findSession(q.db, q.cookie) = <<>> \/ findSession(q.db, q.cookie)[1].expiresAt < q.now
    THEN AuthAnswer(401, "Session expired", TRUE)
  ELSE IF q.dbError = "users" THEN AuthAnswer(500, "Internal server error", FALSE)
  ELSE IF findUser(q.db, findSession(q.db, q.cookie)[1].userId) = <<>>
    THEN AuthAnswer(401, "User not found", TRUE)
  ELSE [status |-> 0, error |-> "", next |-> TRUE,
        user |-> <<reqUser(findUser(q.db, findSession(q.db, q.cookie)[1].userId)[1])>>,
        cleared |-> FALSE, sent |-> 0]

AuthRequests ==
  {[route |-> "auth", cookie |-> c, db |-> d, dbError |-> e, now |-> n] :
     c \in Cookies, d \in AuthDbs, e \in DbErrors, n \in Times}

\* ------------------------------------------------------ backend: scan
\* files of the request body: 0 stands for a body whose files is missing, no
\* array or empty
ScanRequests ==
  {[route |-> "scan", nFiles |-> n, reply |-> r] :
     n \in 0..MaxFiles,
     r \in {Reply(k, <<>>) : k \in ReplyKinds}
             \cup {Reply("json", <<SeverityIssue(1, v)>>) : v \in AgentSeverities}}

\* the issue list with the given number of issues of each severity
GradeList(critical, high, medium, low, other) ==
  [i \in 1..(critical + high + medium + low + other) |->
     SeverityIssue(i, IF i <= critical THEN "critical"
                      ELSE IF i <= critical + high THEN "high"
                      ELSE IF i <= critical + high + medium THEN "medium"
                      ELSE IF i <= critical + high + medium + low THEN "low"
                      ELSE "info")]

\* calculateGrade of a list and of the list with one more finding
GradeRequests ==
  {[route |-> "grade", critical |-> c, high |-> h, medium |-> m, low |-> l,
    issues |-> GradeList(c, h, m, l, o), added |-> v] :
     c \in 0..MaxCritical, h \in 0..MaxOther, m \in 0..MaxOther, l \in 0..MaxOther,
     o \in 0..1, v \in AgentSeverities}

gradeBoth(q) ==
  [before |-> calculateGrade(q.issues),
   after |-> calculateGrade(Append(q.issues, SeverityIssue(Len(q.issues) + 1, q.added)))]

\* ------------------------------------------------ backend: issues by file
\* a row of issues: filePath is "" when the column is null or empty
IssueRow(id, filePath, severity) ==
  [id |-> id, severity |-> severity, filePath |-> filePath, lineStart |-> id]

\* "constructor" stands for the names an object literal inherits from
\* Object.prototype (constructor, toString, valueOf, __proto__, ...)
InheritedKeys == {"constructor"}

RowPaths == {"", "a", "n"} \cup InheritedKeys

\* the issues of the repository, in the order of their ids
RowLists ==
  UNION {{[i \in 1..n |-> IssueRow(i, c[i][1], c[i][2])] :
            c \in [1..n -> RowPaths \X {"critical", "low"}]} : n \in 0..MaxGroupIssues}

\* ORDER BY CASE severity ..., file_path, line_start: null paths last
rowKey(row) ==
  <<CASE row.severity = "critical" -> 1 [] row.severity = "high" -> 2
      [] row.severity = "medium" -> 3 [] row.severity = "low" -> 4 [] OTHER -> 5,
    CASE row.filePath = "a" -> 1 [] row.filePath = "constructor" -> 2
      [] row.filePath = "n" -> 3 [] OTHER -> 4,
    row.lineStart>>

keyBefore(x, y) ==
  \/ x[1] < y[1]
  \/ x[1] = y[1] /\ x[2] < y[2]
  \/ x[1] = y[1] /\ x[2] = y[2] /\ x[3] < y[3]

\* db.select().from(issues).where(..).orderBy(..)
selectIssues(rows) ==
  LET o == CHOOSE q \in MapOrders(1..Len(rows)) :
             \A a, b \in 1..Len(rows) : a < b => keyBefore(rowKey(rows[q[a]]), rowKey(rows[q[b]]))
  IN  [k \in 1..Len(rows) |-> rows[o[k]]]

NoGroups == [thrown |-> FALSE, groups |-> <<>>]

\* allIssues.reduce(.., {}): acc[filePath] of an inherited name is truthy and
\* has no push, so the callback throws; the own keys keep insertion order
RECURSIVE groupReduce(_, _, _)
groupReduce(allIssues, i, acc) ==
  IF i > Len(allIssues) \/ acc.thrown THEN acc
  ELSE LET filePath == IF allIssues[i].filePath = "" THEN "No file specified"
                       ELSE allIssues[i].filePath
           at == {k \in 1..Len(acc.groups) : acc.groups[k].filePath = filePath}
       IN  IF filePath \in InheritedKeys
             THEN groupReduce(allIssues, i + 1, [acc EXCEPT !.thrown = TRUE])
           ELSE IF at = {}
             THEN groupReduce(allIssues, i + 1,
                    [acc EXCEPT !.groups = Append(@, [filePath |-> filePath,
                                                      issues |-> <<allIssues[i]>>])])
           ELSE groupReduce(allIssues, i + 1,
                  [acc EXCEPT !.groups[CHOOSE k \in at : TRUE].issues = Append(@, allIssues[i])])

\* Object.entries(groupedByFile).map(..)
groupEntries(groups) ==
  [k \in 1..Len(groups) |->
     [filePath |-> groups[k].filePath, issueCount |-> Len(groups[k].issues),
      issues |-> groups[k].issues]]

\* result.sort((a, b) => b.issueCount - a.issueCount), a stable sort
sortByCount(entries) ==
  LET o == CHOOSE q \in MapOrders(1..Len(entries)) :
             \A a, b \in 1..Len(entries) :
               a < b => \/ entries[q[a]].issueCount > entries[q[b]].issueCount
                        \/ /\ entries[q[a]].issueCount = entries[q[b]].issueCount
                           /\ q[a] < q[b]
  IN  [k \in 1..Len(entries) |-> entries[o[k]]]

GroupAnswer(status, error, groups) == [status |-> status, error |-> error, groups |-> groups]

\* the body of both by-file routes from the select of the issues on; an error
\* thrown goes to next(error) and is answered 500
issuesByFile(rows) ==
  LET grouped == groupReduce(selectIssues(rows), 1, NoGroups)
  IN  IF grouped.thrown THEN GroupAnswer(500, "Internal Server Error", <<>>)
      ELSE GroupAnswer(200, "", sortByCount(groupEntries(grouped.groups)))

\* GET /:id/issues/by-file
idIssuesByFile(q) ==
  IF ~q.idValid THEN GroupAnswer(400, "Invalid repository ID", <<>>)
  ELSE IF ~q.repoFound THEN GroupAnswer(404, "Repository not found", <<>>)
  ELSE issuesByFile(q.rows)

\* GET /:token/issues/by-file
tokenIssuesByFile(q) == behindShareToken(q, issuesByFile(q.rows))

ByFileRequests ==
  {[route |-> "idByFile", idValid |-> TRUE, repoFound |-> TRUE, rows |-> r] : r \in RowLists}
  \cup {[route |-> "idByFile", idValid |-> v[1], repoFound |-> v[2], rows |-> <<>>] :
          v \in {<<FALSE, TRUE>>, <<TRUE, FALSE>>}}
  \cup {[route |-> "tokenByFile", db |-> GoodDb, token |-> "t", now |-> 0, rows |-> r] :
          r \in RowLists}

\* ---------------------------------------------------------------- state
VARIABLES
  pc,            \* where runScan stands; "parsed" after parseReportFile
  ret,           \* what runScan returned: "running", "nil" or "error"
  env,           \* the world the command runs in (path, credentials, files)
  reply,         \* the reply of the model to the analysis prompt
  outputFormat,  \* --format
  showAll,       \* --all
  httpResp,      \* the answer of POST /api/cli/scan
  scanResp,      \* the api.ScanResponse client.Scan returned
  stdout,        \* what fmt.Print* wrote to standard output, in order
  jsonDoc,       \* the document outputJSON printed
  sarifDoc,      \* the document outputSARIF printed
  prettyDoc,     \* the report outputPretty printed
  report,        \* what parseReportFile returned
  tree,          \* the regular files under the scanned path, in walk order
  result,        \* what scanner.Scan returned: the files and the skipped count
  skipWarning,   \* the count the "Skipped n files" warning showed, 0 if none
  wrapArgs,      \* the text and width wrapText is called with
  wrapped,       \* what wrapText returned
  req,           \* the request (or the arguments) a backend operation serves
  res,           \* what the backend operation answered
  user,          \* AuthProvider: useState user
  workspaces,    \* AuthProvider: useState workspaces
  currentWorkspace, \* AuthProvider: useState currentWorkspace
  isLoading,     \* AuthProvider: useState isLoading
  savedWorkspaceId, \* localStorage item currentWorkspaceId, "" if none
  pending,       \* number of fetchAuth calls awaiting their response
  lastFetch      \* how the fetchAuth that completed last ended, "none" at first

vars == <<pc, ret, env, reply, outputFormat, showAll, httpResp, scanResp, stdout,
          jsonDoc, sarifDoc, prettyDoc, report, tree, result, skipWarning,
          wrapArgs, wrapped, req, res, user, workspaces, currentWorkspace,
          isLoading, savedWorkspaceId, pending, lastFetch>>

backendVars == <<req, res>>

providerVars == <<user, workspaces, currentWorkspace, isLoading, savedWorkspaceId,
                  pending, lastFetch>>

scanVars == <<ret, env, reply, outputFormat, showAll, httpResp, scanResp, stdout,
              jsonDoc, sarifDoc, prettyDoc, report, tree, result, skipWarning,
              wrapArgs, wrapped>>

Env(path, auth, scanner, nFiles, skipped, polls) ==
  [path |-> path, auth |-> auth, scanner |-> scanner, nFiles |-> nFiles,
   skipped |-> skipped, polls |-> polls]

\* the world in which the scan reaches the reporter
GoodEnv == Env("dir", "ok", "ok", MaxFiles, 0, 1)

\* worlds that differ from GoodEnv in what is skipped and how often the status
\* callback runs, and one world for every way runScan stops before it submits
OtherEnvs ==
  {Env("dir", "ok", "ok", MaxFiles, 1, 0),
   Env("missing", "ok", "ok", 1, 0, 0), Env("file", "ok", "ok", 1, 0, 0),
   Env("dir", "none", "ok", 1, 0, 0), Env("dir", "rejected", "ok", 1, 0, 0),
   Env("dir", "ok", "error", 0, 0, 0), Env("dir", "ok", "ok", 0, 0, 0)}

Formats == {"pretty", "json", "sarif"}

\* --all is read by the pretty reporter only
FlagSettings == {<<f, a>> \in Formats \X BOOLEAN : a => f = "pretty"}

\* The invocations of one specification: the scan of the good world with every
\* issue list of issueLists and every flag setting, the replies that carry no
\* issue list, and the other worlds.
Scenarios(issueLists) ==
  {[env |-> GoodEnv, reply |-> Reply("json", is), format |-> fl[1], all |-> fl[2]] :
     is \in issueLists, fl \in FlagSettings}
  \cup {[env |-> GoodEnv, reply |-> Reply(k, <<>>), format |-> f, all |-> FALSE] :
          k \in ReplyKinds \ {"json"}, f \in Formats}
  \cup {[env |-> e, reply |-> Reply("json", <<>>), format |-> "json", all |-> FALSE] :
          e \in OtherEnvs}

NoResult == [files |-> <<>>, skipped |-> 0]

NoWrap == [text |-> <<>>, width |-> 1]

\* nothing has run yet
InitRest ==
  /\ ret = "running"
  /\ httpResp = [status |-> 0, body |-> NoBody]
  /\ scanResp = NoBody
  /\ stdout = <<>>
  /\ jsonDoc = EmptyJSON
  /\ sarifDoc = EmptySARIF
  /\ prettyDoc = EmptyPretty
  /\ report = [status |-> "unread", issues |-> <<>>]
  /\ result = NoResult
  /\ skipWarning = 0
  /\ wrapped = <<>>

NoReq == [route |-> "none"]

NoRes == [status |-> 0]

NoUser == "null"

NoWorkspace == [id |-> "", role |-> ""]

\* no backend operation is under way
InitBackend == req = NoReq /\ res = NoRes

\* AuthProvider as mounted: the initial values of its useState calls, and the
\* fetchAuth of the mount effect under way
InitProvider ==
  /\ user = NoUser
  /\ workspaces = <<>>
  /\ currentWorkspace = NoWorkspace
  /\ isLoading = TRUE
  /\ pending = 1
  /\ lastFetch = "none"

\* the scan command is not run
IdleScan ==
  /\ env = GoodEnv
  /\ reply = Reply("json", <<>>)
  /\ outputFormat = "pretty"
  /\ showAll = FALSE
  /\ tree = <<>>
  /\ wrapArgs = NoWrap
  /\ InitRest

InitOf(issueLists) ==
  /\ \E sc \in Scenarios(issueLists) :
       /\ env = sc.env
       /\ reply = sc.reply
       /\ outputFormat = sc.format
       /\ showAll = sc.all
       /\ tree = TreeOf(sc.env.nFiles, sc.env.skipped)
  /\ pc = "start"
  /\ wrapArgs = NoWrap
  /\ InitRest
  /\ InitBackend
  /\ InitProvider /\ savedWorkspaceId = ""

Init == InitOf(OrderIssueLists)

InitLines == InitOf(LineIssueLists)

InitText == InitOf(TextIssueLists)

InitSeverity == InitOf(SeverityIssueLists)

InitFiles == InitOf(FileIssueLists)

\* the scans of the good world over every tree, besides the other worlds
InitCollect ==
  /\ \/ \E sc \in Scenarios({<<>>}) :
          /\ env = sc.env
          /\ reply = sc.reply
          /\ outputFormat = sc.format
          /\ showAll = sc.all
          /\ tree = TreeOf(sc.env.nFiles, sc.env.skipped)
     \/ \E t \in TreesUpTo(MaxTreeFiles) :
          /\ tree = t
          /\ env = Env("dir", "ok", "ok",
                       Cardinality({i \in 1..Len(t) : ~t[i].pruned /\ t[i].size <= FileSizeLimit}),
                       Cardinality({i \in 1..Len(t) : ~t[i].pruned /\ t[i].size > FileSizeLimit}),
                       1)
          /\ reply = Reply("json", <<>>)
          /\ outputFormat = "json"
          /\ showAll = FALSE
  /\ pc = "start"
  /\ wrapArgs = NoWrap
  /\ InitRest
  /\ InitBackend
  /\ InitProvider /\ savedWorkspaceId = ""

\* one call of wrapText
InitWrap ==
  /\ wrapArgs \in [text : WrapTextsUpTo(MaxWrapLen), width : 1..MaxWidth]
  /\ pc = "wrap"
  /\ env = GoodEnv
  /\ reply = Reply("json", <<>>)
  /\ outputFormat = "pretty"
  /\ showAll = FALSE
  /\ tree = <<>>
  /\ InitRest
  /\ InitBackend
  /\ InitProvider /\ savedWorkspaceId = ""

\* ---------------------------------------------------------------- runScan
Return(value) == pc' = "done" /\ ret' = value

PathCheckNoDirTest ==
  /\ pc = "start"
  /\ IF env.path # "missing"
       THEN pc' = "auth" /\ ret' = ret
       ELSE Return("error")
  /\ UNCHANGED <<env, reply, outputFormat, showAll, httpResp, scanResp, stdout,
                 jsonDoc, sarifDoc, prettyDoc, report>>
  /\ UNCHANGED <<tree, result, skipWarning, wrapArgs, wrapped>>
  /\ UNCHANGED <<backendVars, providerVars>>

\* filepath.Abs, os.Stat and info.IsDir
PathCheck ==
  /\ pc = "start"
  /\ IF env.path = "dir"
       THEN pc' = "auth" /\ ret' = ret
       ELSE Return("error")
  /\ UNCHANGED <<env, reply, outputFormat, showAll, httpResp, scanResp, stdout,
                 jsonDoc, sarifDoc, prettyDoc, report>>
  /\ UNCHANGED <<tree, result, skipWarning, wrapArgs, wrapped>>
  /\ UNCHANGED <<backendVars, providerVars>>

\* config.Load, cfg.IsAuthenticated, the logo and client.GetMe
Authenticate ==
  /\ pc = "auth"
  /\ \/ /\ env.auth = "none"
        /\ stdout' = stdout \o <<"blank">>
        /\ Return("nil")
     \/ /\ env.auth = "rejected"
        /\ stdout' = stdout \o <<"logo", "verifying", "clear", "blank">>
        /\ Return("nil")
     \/ /\ env.auth = "ok"
        /\ stdout' = stdout \o <<"logo", "verifying", "clear", "user", "blank">>
        /\ pc' = "collect"
        /\ ret' = ret
  /\ UNCHANGED <<env, reply, outputFormat, showAll, httpResp, scanResp,
                 jsonDoc, sarifDoc, prettyDoc, report>>
  /\ UNCHANGED <<tree, result, skipWarning, wrapArgs, wrapped>>
  /\ UNCHANGED <<backendVars, providerVars>>

\* scanner.NewScanner(absPath).Scan() and the lines about its result
Collect ==
  /\ pc = "collect"
  /\ \/ /\ env.scanner = "error"
        /\ stdout' = stdout \o <<"collecting">>
        /\ result' = result
        /\ skipWarning' = skipWarning
        /\ Return("error")
     \/ /\ env.scanner = "ok"
        /\ Len(scannerScan(tree).files) = 0
        /\ stdout' = stdout \o <<"collecting">>
        /\ result' = scannerScan(tree)
        /\ skipWarning' = skipWarning
        /\ Return("nil")
     \/ /\ env.scanner = "ok"
        /\ Len(scannerScan(tree).files) > 0
        /\ stdout' = stdout \o <<"collecting", "found">>
        /\ result' = scannerScan(tree)
        /\ skipWarning' = IF scannerScan(tree).skipped > 0 THEN scannerScan(tree).skipped ELSE 0
        /\ pc' = "submit"
        /\ ret' = ret
  /\ UNCHANGED <<env, reply, outputFormat, showAll, httpResp, scanResp,
                 jsonDoc, sarifDoc, prettyDoc, report>>
  /\ UNCHANGED <<tree, wrapArgs, wrapped>>
  /\ UNCHANGED <<backendVars, providerVars>>

\* client.Scan as runScan uses it: an error, or the response.  It answers
\* with an error unless the route answers 200, and with the decoded body of
\* the route's answer otherwise.
clientScan(answer) ==
  IF answer.status = 200 THEN [err |-> FALSE, resp |-> answer.body]
  ELSE [err |-> TRUE, resp |-> NoBody]

\* the spinner, client.Scan(result.Files, onStatus) and the line that follows
Submit ==
  /\ pc = "submit"
  /\ httpResp' = scanRoute(Len(result.files), reply)
  /\ \/ /\ clientScan(httpResp').err
        /\ stdout' = stdout \o <<"running">> \o [k \in 1..env.polls |-> "status"] \o <<"blank">>
        /\ scanResp' = scanResp
        /\ Return("nil")
     \/ /\ ~clientScan(httpResp').err
        /\ stdout' = stdout \o <<"running">> \o [k \in 1..env.polls |-> "status"] \o <<"complete">>
        /\ scanResp' = clientScan(httpResp').resp
        /\ pc' = "report"
        /\ ret' = ret
  /\ UNCHANGED <<env, reply, outputFormat, showAll, jsonDoc, sarifDoc, prettyDoc, report>>
  /\ UNCHANGED <<tree, result, skipWarning, wrapArgs, wrapped>>
  /\ UNCHANGED <<backendVars, providerVars>>

OutputJSON ==
  /\ pc = "report"
  /\ outputFormat = "json"
  /\ jsonDoc' = outputJSON(scanResp)
  /\ stdout' = Append(stdout, "json")
  /\ Return("nil")
  /\ UNCHANGED <<env, reply, outputFormat, showAll, httpResp, scanResp,
                 sarifDoc, prettyDoc, report>>
  /\ UNCHANGED <<tree, result, skipWarning, wrapArgs, wrapped>>
  /\ UNCHANGED <<backendVars, providerVars>>

OutputSARIF ==
  /\ pc = "report"
  /\ outputFormat = "sarif"
  /\ \E order \in MapOrders(DOMAIN buildRuleMap(scanResp.issues, 1, NoRules)) :
       sarifDoc' = outputSARIF(scanResp, order)
  /\ stdout' = Append(stdout, "sarif")
  /\ Return("nil")
  /\ UNCHANGED <<env, reply, outputFormat, showAll, httpResp, scanResp,
                 jsonDoc, prettyDoc, report>>
  /\ UNCHANGED <<tree, result, skipWarning, wrapArgs, wrapped>>
  /\ UNCHANGED <<backendVars, providerVars>>

\* With --all the listing is resp.Issues itself, so sort.Slice reorders the
\* response in place; without it the listing is a fresh slice.
OutputPretty ==
  /\ pc = "report"
  /\ outputFormat \notin {"json", "sarif"}
  /\ \E sorted \in sortSlice(filterIssues(scanResp.issues, showAll)) :
       /\ \E fileOrder \in MapOrders(FilesOf(sorted)) :
            prettyDoc' = outputPretty(scanResp, showAll, sorted, fileOrder)
       /\ scanResp' = IF showAll /\ Len(scanResp.issues) > 0
                        THEN [scanResp EXCEPT !.issues = sorted]
                        ELSE scanResp
  /\ stdout' = Append(stdout, "pretty")
  /\ Return("nil")
  /\ UNCHANGED <<env, reply, outputFormat, showAll, httpResp, jsonDoc, sarifDoc, report>>
  /\ UNCHANGED <<tree, result, skipWarning, wrapArgs, wrapped>>
  /\ UNCHANGED <<backendVars, providerVars>>

\* the analysis pipeline reads the report file the agent wrote
ParseReportFile ==
  /\ pc = "start"
  /\ report' = parseReportFile(reply)
  /\ pc' = "parsed"
  /\ UNCHANGED <<ret, env, reply, outputFormat, showAll, httpResp, scanResp, stdout,
                 jsonDoc, sarifDoc, prettyDoc>>
  /\ UNCHANGED <<tree, result, skipWarning, wrapArgs, wrapped>>
  /\ UNCHANGED <<backendVars, providerVars>>

Next ==
  \/ PathCheck
  \/ Authenticate
  \/ Collect
  \/ Submit
  \/ OutputJSON
  \/ OutputSARIF
  \/ OutputPretty
  \/ ParseReportFile

Spec == Init /\ [][Next]_vars

SpecLines == InitLines /\ [][Next]_vars

SpecText == InitText /\ [][Next]_vars

SpecSeverity == InitSeverity /\ [][Next]_vars

SpecFiles == InitFiles /\ [][Next]_vars

SpecCollect == InitCollect /\ [][Next]_vars

\* wrapText(text, width) applied to its arguments
WrapText ==
  /\ pc = "wrap"
  /\ wrapped' = wrapText(wrapArgs.text, wrapArgs.width)
  /\ pc' = "wrapped"
  /\ UNCHANGED <<ret, env, reply, outputFormat, showAll, httpResp, scanResp, stdout,
                 jsonDoc, sarifDoc, prettyDoc, report, tree, result, skipWarning, wrapArgs>>
  /\ UNCHANGED <<backendVars, providerVars>>

NextWrap == WrapText

SpecWrap == InitWrap /\ [][NextWrap]_vars

\* --------------------------------------------------------------- backend
Requests ==
  IdFileRequests \cup TokenFileRequests \cup TokenRepoRequests \cup WriteRequests
    \cup AuthRequests \cup ScanRequests \cup GradeRequests
    \cup ByFileRequests

\* one request to the backend
InitRequests ==
  /\ req \in Requests
  /\ res = NoRes
  /\ pc = "request"
  /\ IdleScan
  /\ InitProvider /\ savedWorkspaceId = ""

Respond(answer) ==
  /\ pc = "request"
  /\ res' = answer
  /\ pc' = "responded"
  /\ UNCHANGED <<req, scanVars, providerVars>>

IdFiles == req.route = "idFiles" /\ Respond(idFileContent(req))

TokenFiles == req.route = "tokenFiles" /\ Respond(tokenFileContent(req))

TokenRepo == req.route = "tokenRepo" /\ Respond(tokenRepo(req))

RequireWriteAccess == req.route = "write" /\ Respond(requireWriteAccess(req.workspaceRole))

RequireAuth == req.route = "auth" /\ Respond(requireAuth(req))

ScanRoute == req.route = "scan" /\ Respond(scanRoute(req.nFiles, req.reply))

CalculateGrade == req.route = "grade" /\ Respond(gradeBoth(req))

IdIssuesByFile == req.route = "idByFile" /\ Respond(idIssuesByFile(req))

TokenIssuesByFile == req.route = "tokenByFile" /\ Respond(tokenIssuesByFile(req))

NextBackend ==
  \/ IdFiles
  \/ TokenFiles
  \/ TokenRepo
  \/ RequireWriteAccess
  \/ RequireAuth
  \/ ScanRoute
  \/ CalculateGrade
  \/ IdIssuesByFile
  \/ TokenIssuesByFile

SpecBackend == InitRequests /\ [][NextBackend]_vars

\* ---------------------------------------------------------- AuthProvider
WorkspaceIds == {"w1", "w2"}

\* a Workspace as /auth/me returns it; the role may change between two fetches
Workspaces == [id : WorkspaceIds, role : {"owner", "viewer"}]

\* data.workspaces: no two entries with one id
WorkspaceLists ==
  {ws \in UNION {[1..n -> Workspaces] : n \in 0..MaxWorkspaces} :
     \A i, j \in 1..Len(ws) : i # j => ws[i].id # ws[j].id}

\* data.workspaces.find(w => w.id === savedWorkspaceId)
findWorkspace(ws, id) ==
  LET at == {i \in 1..Len(ws) : ws[i].id = id}
  IN  IF at = {} THEN <<>> ELSE <<ws[CHOOSE i \in at : \A j \in at : i <= j]>>

InitAuthProvider ==
  /\ InitProvider
  /\ savedWorkspaceId \in {""} \cup WorkspaceIds
  /\ pc = "mounted"
  /\ InitBackend
  /\ IdleScan

\* refreshAuth: fetchAuth up to its await of fetch
RefreshAuth ==
  /\ pc = "mounted"
  /\ pending < MaxPending
  /\ pending' = pending + 1
  /\ lastFetch' = "none"
  /\ UNCHANGED <<user, workspaces, currentWorkspace, isLoading, savedWorkspaceId>>
  /\ UNCHANGED <<pc, scanVars, backendVars>>

\* fetchAuth from the response on, for a response that is ok
FetchAuthOk ==
  /\ pc = "mounted"
  /\ pending > 0
  /\ \E ws \in WorkspaceLists :
       /\ user' = "u1"
       /\ workspaces' = ws
       /\ IF findWorkspace(ws, savedWorkspaceId) # <<>>
            THEN /\ currentWorkspace' = findWorkspace(ws, savedWorkspaceId)[1]
                 /\ savedWorkspaceId' = savedWorkspaceId
          ELSE IF Len(ws) > 0
            THEN /\ currentWorkspace' = ws[1]
                 /\ savedWorkspaceId' = ws[1].id
          ELSE UNCHANGED <<currentWorkspace, savedWorkspaceId>>
  /\ isLoading' = FALSE
  /\ pending' = pending - 1
  /\ lastFetch' = "ok"
  /\ UNCHANGED <<pc, scanVars, backendVars>>

\* fetchAuth from the response on, for a response that is not ok, a fetch
\* that rejects or a body that is no JSON
FetchAuthFailed ==
  /\ pc = "mounted"
  /\ pending > 0
  /\ user' = NoUser
  /\ workspaces' = <<>>
  /\ currentWorkspace' = NoWorkspace
  /\ isLoading' = FALSE
  /\ pending' = pending - 1
  /\ lastFetch' = "failed"
  /\ UNCHANGED <<savedWorkspaceId, pc, scanVars, backendVars>>

\* setCurrentWorkspace, called with an entry of workspaces
SetCurrentWorkspace ==
  /\ pc = "mounted"
  /\ \E i \in 1..Len(workspaces) :
       /\ currentWorkspace' = workspaces[i]
       /\ savedWorkspaceId' = workspaces[i].id
  /\ lastFetch' = "none"
  /\ UNCHANGED <<user, workspaces, isLoading, pending, pc, scanVars, backendVars>>

NextProvider ==
  \/ RefreshAuth
  \/ FetchAuthOk
  \/ FetchAuthFailed
  \/ SetCurrentWorkspace

SpecProvider == InitAuthProvider /\ [][NextProvider]_vars

\* ---------------------------------------------------------------- claims
\* the issue list the route answered with, before any reporter touched it
Answered == httpResp.body.issues

\* s is the body of a JSON string literal: no raw quote or control character,
\* and every backslash starts one of the escapes \\ \" \n \t
RECURSIVE ValidJSONString(_)
ValidJSONString(s) ==
  IF s = <<>> THEN TRUE
  ELSE IF Head(s) = BS
    THEN Len(s) >= 2 /\ s[2] \in {BS, DQ, "n", "t"} /\ ValidJSONString(SubSeq(s, 3, Len(s)))
  ELSE IF Head(s) \in {DQ, NL, TAB, CR} THEN FALSE
  ELSE ValidJSONString(Tail(s))

\* no raw backslash, quote, newline or tab in s (other characters are free)
RECURSIVE FourEscaped(_)
FourEscaped(s) ==
  IF s = <<>> THEN TRUE
  ELSE IF Head(s) = BS
    THEN Len(s) >= 2 /\ s[2] \in {BS, DQ, "n", "t"} /\ FourEscaped(SubSeq(s, 3, Len(s)))
  ELSE IF Head(s) \in {DQ, NL, TAB} THEN FALSE
  ELSE FourEscaped(Tail(s))

\* C1: for every finding, the region outputSARIF prints has
\* startLine = max(lineStart, 1) and endLine = max(lineEnd, lineStart, 1), so
\* startLine >= 1 and endLine >= startLine; lineStart = 10, lineEnd = 5 gives 10, 10.
C1_LineClamping ==
  sarifDoc.printed =>
    /\ Len(sarifDoc.results) = Len(Answered)
    /\ \A i \in 1..Len(sarifDoc.results) :
         LET f == Answered[i]
             r == sarifDoc.results[i]
         IN  /\ r.startLine = (IF f.lineStart >= 1 THEN f.lineStart ELSE 1)
             /\ r.endLine \in {f.lineEnd, f.lineStart, 1}
             /\ r.endLine >= f.lineEnd /\ r.endLine >= f.lineStart /\ r.endLine >= 1
             /\ r.startLine >= 1
             /\ r.endLine >= r.startLine
             /\ (f.lineStart = 10 /\ f.lineEnd = 5) => (r.startLine = 10 /\ r.endLine = 10)

C1_Witness ==
  /\ sarifDoc.printed
  /\ \E i \in 1..Len(sarifDoc.results) :
       /\ Answered[i].lineStart = 10 /\ Answered[i].lineEnd = 5
       /\ sarifDoc.results[i].startLine = 10 /\ sarifDoc.results[i].endLine = 10

\* C2: the rules array has exactly one entry per distinct finding id, the
\* results array one entry per finding, in input order, and every result's
\* ruleId is the id of an entry of rules.
C2_RulesAndResults ==
  sarifDoc.printed =>
    /\ {sarifDoc.rules[k].id : k \in 1..Len(sarifDoc.rules)}
         = {Answered[i].id : i \in 1..Len(Answered)}
    /\ \A k, m \in 1..Len(sarifDoc.rules) :
         k # m => sarifDoc.rules[k].id # sarifDoc.rules[m].id
    /\ Len(sarifDoc.results) = Len(Answered)
    /\ \A i \in 1..Len(sarifDoc.results) :
         /\ sarifDoc.results[i].ruleId = Answered[i].id
         /\ \E k \in 1..Len(sarifDoc.rules) : sarifDoc.rules[k].id = sarifDoc.results[i].ruleId

C2_Witness ==
  /\ sarifDoc.printed
  /\ Len(sarifDoc.rules) = 1
  /\ Len(sarifDoc.results) = 3
  /\ \A i \in 1..3 : sarifDoc.results[i].ruleId = sarifDoc.rules[1].id

\* position in the answered list of the finding an entry of the listing shows
PosOf(entry) == CHOOSE i \in 1..Len(Answered) : Answered[i].title = entry.title

\* C3: the listed findings are in the order critical, high, medium, low, and
\* two findings of equal severity keep their relative input order.
C3_SortedAndStable ==
  prettyDoc.printed =>
    \A k \in 1..Len(prettyDoc.sections) :
      \A m, n \in 1..Len(prettyDoc.sections[k].issues) :
        LET a == prettyDoc.sections[k].issues[m]
            b == prettyDoc.sections[k].issues[n]
        IN  m < n =>
              /\ severityOrder(a.badge) <= severityOrder(b.badge)
              /\ a.badge = b.badge => PosOf(a) < PosOf(b)

\* C4: without --all no low finding is in the detailed listing while the
\* summary's Low count counts every low finding; with --all every low finding
\* is in the listing and in the summary.
C4_LowHiding ==
  prettyDoc.printed =>
    /\ prettyDoc.counts["low"] =
         Cardinality({i \in 1..Len(Answered) : Answered[i].severity = "low"})
    /\ ~showAll =>
         \A k \in 1..Len(prettyDoc.sections) :
           \A n \in 1..Len(prettyDoc.sections[k].issues) :
             prettyDoc.sections[k].issues[n].badge # "low"
    /\ showAll =>
         \A i \in 1..Len(Answered) :
           Answered[i].severity = "low" =>
             \E k \in 1..Len(prettyDoc.sections) :
               /\ prettyDoc.sections[k].file = Answered[i].filePath
               /\ \E n \in 1..Len(prettyDoc.sections[k].issues) :
                    /\ prettyDoc.sections[k].issues[n].title = Answered[i].title
                    /\ prettyDoc.sections[k].issues[n].badge = "low"

C4_Witness ==
  /\ prettyDoc.printed
  /\ ~showAll
  /\ prettyDoc.counts["low"] = 2
  /\ Len(prettyDoc.sections) = 1
  /\ Len(prettyDoc.sections[1].issues) = 1

\* C5: every string field outputJSON emits has backslash, double quote,
\* newline and tab escaped (grade and severity are printed as they come, like
\* file; the text fields are title, file and description).
C5_JSONFieldsEscaped ==
  jsonDoc.printed =>
    \A i \in 1..Len(jsonDoc.issues) :
      /\ FourEscaped(jsonDoc.issues[i].title)
      /\ FourEscaped(jsonDoc.issues[i].file)
      /\ FourEscaped(jsonDoc.issues[i].description)

\* C6: a finding whose severity is outside critical, high, medium, low is
\* rejected when the agent's payload is parsed: it is in no value
\* parseReportFile returns, in no answer of POST /api/cli/scan and reaches no
\* reporter.
C6_UnknownSeverityRejected ==
  /\ report.status = "ok" =>
       \A i \in 1..Len(report.issues) : report.issues[i].severity \in Severities
  /\ httpResp.status = 200 =>
       \A i \in 1..Len(httpResp.body.issues) : httpResp.body.issues[i].severity \in Severities
  /\ (jsonDoc.printed \/ sarifDoc.printed \/ prettyDoc.printed) =>
       \A i \in 1..Len(scanResp.issues) : scanResp.issues[i].severity \in Severities

\* C7: with --format json or sarif, what a successful runScan wrote to
\* standard output is the reporter's document and nothing else.
C7_StdoutIsTheDocument ==
  (pc = "done" /\ ret = "nil" /\ (jsonDoc.printed \/ sarifDoc.printed)) =>
    stdout = <<outputFormat>>

\* C8: outputSARIF prints a valid JSON document of the SARIF 2.1.0 shape: the
\* schema URL and version, the entries of rules and of results closed by "},"
\* except the last, closed by "}", and every string a valid JSON string
\* literal whatever the findings' text fields contain.
C8_SARIFIsValidJSON ==
  sarifDoc.printed =>
    /\ sarifDoc.schema = "https://json.schemastore.org/sarif-2.1.0.json"
    /\ sarifDoc.version = "2.1.0"
    /\ \A k \in 1..Len(sarifDoc.rules) :
         LET r == sarifDoc.rules[k]
         IN  /\ r.close = (IF k < Len(sarifDoc.rules) THEN "}," ELSE "}")
             /\ ValidJSONString(r.id) /\ ValidJSONString(r.name)
             /\ ValidJSONString(r.shortDescription) /\ ValidJSONString(r.fullDescription)
             /\ ValidJSONString(r.category)
    /\ \A i \in 1..Len(sarifDoc.results) :
         LET r == sarifDoc.results[i]
         IN  /\ r.close = (IF i < Len(sarifDoc.results) THEN "}," ELSE "}")
             /\ ValidJSONString(r.ruleId) /\ ValidJSONString(r.message)
             /\ ValidJSONString(r.uri)

\* the first finding of the answered list that carries the id
FirstWithId(id) ==
  Answered[CHOOSE i \in 1..Len(Answered) :
             /\ Answered[i].id = id
             /\ \A j \in 1..(i - 1) : Answered[j].id # id]

\* C9: the rule of an id takes its name, short and full description, default
\* level, security-severity and category from the first finding of that id.
C9_FirstOccurrenceWins ==
  sarifDoc.printed =>
    \A k \in 1..Len(sarifDoc.rules) :
      LET r == sarifDoc.rules[k]
          f == FirstWithId(r.id)
      IN  /\ \E i \in 1..Len(Answered) : Answered[i].id = r.id
          /\ r.name = f.title
          /\ r.shortDescription = f.title
          /\ r.fullDescription = f.description
          /\ r.level = severityToLevel(f.severity)
          /\ r.securitySeverity = severityToScore(f.severity)
          /\ r.category = f.category

C9_Witness ==
  /\ sarifDoc.printed
  /\ Len(Answered) = 3
  /\ Answered[1].id = Answered[3].id
  /\ Answered[1].severity = "low" /\ Answered[3].severity = "critical"
  /\ \E k \in 1..Len(sarifDoc.rules) :
       /\ sarifDoc.rules[k].id = Answered[1].id
       /\ sarifDoc.rules[k].name = Answered[1].title
       /\ sarifDoc.rules[k].level = "note"

Levels == {"error", "warning", "note"}

LevelOf(severity) ==
  CASE severity \in {"critical", "high"} -> "error"
    [] severity = "medium" -> "warning"
    [] severity = "low" -> "note"
    [] OTHER -> "none"

\* C10: every result carries the level mapped from its finding's severity,
\* every rule's default level the level mapped from the severity of the
\* finding that defines it, and every level emitted is error, warning or note.
C10_LevelsMapped ==
  sarifDoc.printed =>
    /\ \A i \in 1..Len(sarifDoc.results) :
         /\ sarifDoc.results[i].level = LevelOf(Answered[i].severity)
         /\ sarifDoc.results[i].level \in Levels
    /\ \A k \in 1..Len(sarifDoc.rules) :
         /\ sarifDoc.rules[k].level = LevelOf(FirstWithId(sarifDoc.rules[k].id).severity)
         /\ sarifDoc.rules[k].level \in Levels

\* the scores the mapping is specified on; no other severity has one
Scores == [s \in Severities |->
             CASE s = "critical" -> "9.0" [] s = "high" -> "7.0"
               [] s = "medium" -> "4.0" [] s = "low" -> "1.0"]

\* C11: the security-severity of every rule is 9.0, 7.0, 4.0 or 1.0 as the
\* severity of the finding that defines the rule is critical, high, medium or
\* low; a severity outside these four gets no score and no fallback value.
C11_ScoreHasNoDefault ==
  sarifDoc.printed =>
    \A k \in 1..Len(sarifDoc.rules) :
      LET f == FirstWithId(sarifDoc.rules[k].id)
      IN  /\ f.severity \in DOMAIN Scores
          /\ sarifDoc.rules[k].securitySeverity = Scores[f.severity]

\* C12: the issueCount outputJSON prints is the number of objects of the
\* issues array it prints, and the Critical, High, Medium and Low counts of
\* outputPretty's summary sum to the number of findings.
C12_CountsAddUp ==
  /\ jsonDoc.printed => jsonDoc.issueCount = Len(jsonDoc.issues)
  /\ prettyDoc.printed =>
       prettyDoc.counts["critical"] + prettyDoc.counts["high"]
         + prettyDoc.counts["medium"] + prettyDoc.counts["low"] = Len(Answered)

LowCount == Cardinality({i \in 1..Len(Answered) : Answered[i].severity = "low"})

AnsweredSeverities == [i \in 1..Len(Answered) |-> Answered[i].severity]

\* C13: without --all and with a low finding the notice is printed with the
\* number of non-low findings as shown and the number of low findings as
\* hidden; with --all or without a low finding no notice is printed; low,
\* critical, high, critical gives 3 shown and 1 hidden.
C13_HiddenNotice ==
  prettyDoc.printed =>
    /\ IF ~showAll /\ LowCount > 0
         THEN /\ prettyDoc.notice.printed
              /\ prettyDoc.notice.shown = Len(Answered) - LowCount
              /\ prettyDoc.notice.hidden = LowCount
              /\ prettyDoc.notice.shown + prettyDoc.notice.hidden = Len(Answered)
         ELSE ~prettyDoc.notice.printed
    /\ (~showAll /\ AnsweredSeverities = <<"low", "critical", "high", "critical">>) =>
         /\ prettyDoc.notice.printed
         /\ prettyDoc.notice.shown = 3
         /\ prettyDoc.notice.hidden = 1

C13_Witness ==
  /\ prettyDoc.printed
  /\ ~showAll
  /\ AnsweredSeverities = <<"low", "critical", "high", "critical">>
  /\ prettyDoc.notice = [printed |-> TRUE, shown |-> 3, hidden |-> 1]

\* C14: when the path does not exist or is not a directory, runScan has
\* returned an error once it has moved at all, and nothing was collected,
\* submitted, or printed.
C14_PathErrorBeforeAnything ==
  (env.path # "dir" /\ pc \notin {"start", "parsed", "wrap", "wrapped"}) =>
    /\ pc = "done"
    /\ ret = "error"
    /\ result = NoResult
    /\ httpResp.status = 0
    /\ stdout = <<>>
    /\ ~jsonDoc.printed /\ ~sarifDoc.printed /\ ~prettyDoc.printed

C14_Witness ==
  /\ pc = "done"
  /\ env.path = "file"
  /\ ret = "error"
  /\ stdout = <<>>

\* the entries the detailed listing shows for finding f
EntriesOf(f) ==
  {e \in UNION {{prettyDoc.sections[k].issues[n] : n \in 1..Len(prettyDoc.sections[k].issues)} :
                  k \in 1..Len(prettyDoc.sections)} : e.title = f.title}

Listed(f) == showAll \/ f.severity # "low"

\* C15 as stated: the suffix is the range form when lineEnd > lineStart and
\* the single-line form in every other case.
C15_RangeOrSingle ==
  prettyDoc.printed =>
    \A i \in 1..Len(Answered) :
      Listed(Answered[i]) =>
        \A e \in EntriesOf(Answered[i]) :
          /\ e.location.form = "range" => Answered[i].lineEnd > Answered[i].lineStart
          /\ ~(Answered[i].lineEnd > Answered[i].lineStart) =>
               e.location = [form |-> "single", start |-> Answered[i].lineStart, end |-> 0]

\* C15 amended: for lineStart > 0 the suffix is the range form exactly when
\* lineEnd > lineStart and the single-line form otherwise; for lineStart <= 0
\* no suffix is shown.
C15_RangeOrSingleFromLineOne ==
  prettyDoc.printed =>
    \A i \in 1..Len(Answered) :
      Listed(Answered[i]) =>
        /\ EntriesOf(Answered[i]) # {}
        /\ \A e \in EntriesOf(Answered[i]) :
             e.location =
               IF Answered[i].lineStart <= 0
                 THEN [form |-> "none", start |-> 0, end |-> 0]
               ELSE IF Answered[i].lineEnd > Answered[i].lineStart
                 THEN [form |-> "range", start |-> Answered[i].lineStart,
                       end |-> Answered[i].lineEnd]
               ELSE [form |-> "single", start |-> Answered[i].lineStart, end |-> 0]

C15_Witness ==
  /\ prettyDoc.printed
  /\ Len(Answered) = 1
  /\ Answered[1].lineStart = 2 /\ Answered[1].lineEnd = 2
  /\ \E e \in EntriesOf(Answered[1]) :
       e.location = [form |-> "single", start |-> 2, end |-> 0]

ListedSet == {i \in 1..Len(Answered) : Listed(Answered[i])}

\* the places (section, entry) of the detailed listing that show finding f
PlacesOf(f) ==
  {p \in UNION {{<<k, n>> : n \in 1..Len(prettyDoc.sections[k].issues)} :
                  k \in 1..Len(prettyDoc.sections)} :
     prettyDoc.sections[p[1]].issues[p[2]].title = f.title}

\* C16: every listed finding is printed exactly once, in the section of its
\* own filePath; every distinct filePath of the listed findings, the empty
\* path included, has exactly one section, which holds all its findings and
\* no other.
C16_GroupedByFile ==
  prettyDoc.printed =>
    /\ \A i \in ListedSet :
         /\ Cardinality(PlacesOf(Answered[i])) = 1
         /\ \A p \in PlacesOf(Answered[i]) :
              prettyDoc.sections[p[1]].file = Answered[i].filePath
    /\ \A file \in {Answered[i].filePath : i \in ListedSet} :
         Cardinality({k \in 1..Len(prettyDoc.sections) : prettyDoc.sections[k].file = file}) = 1
    /\ \A k \in 1..Len(prettyDoc.sections) :
         /\ prettyDoc.sections[k].file \in {Answered[i].filePath : i \in ListedSet}
         /\ Len(prettyDoc.sections[k].issues) =
              Cardinality({i \in ListedSet : Answered[i].filePath = prettyDoc.sections[k].file})

C16_Witness ==
  /\ prettyDoc.printed
  /\ Len(Answered) = 3
  /\ ListedSet = {1, 2, 3}
  /\ Answered[1].filePath = <<>> /\ Answered[2].filePath = <<"a">>
  /\ Answered[3].filePath = <<>>
  /\ Len(prettyDoc.sections) = 2
  /\ \E k \in 1..2 : /\ prettyDoc.sections[k].file = <<>>
                     /\ Len(prettyDoc.sections[k].issues) = 2

Spaced(s) == [i \in 1..Len(s) |-> IF IsSpace(s[i]) THEN SP ELSE s[i]]

RECURSIVE Squeeze(_)
Squeeze(s) ==
  IF Len(s) < 2 THEN s
  ELSE IF s[1] = SP /\ s[2] = SP THEN Squeeze(Tail(s))
  ELSE <<Head(s)>> \o Squeeze(Tail(s))

Trim(s) ==
  LET from == IF s # <<>> /\ Head(s) = SP THEN 2 ELSE 1
      to == IF s # <<>> /\ s[Len(s)] = SP THEN Len(s) - 1 ELSE Len(s)
  IN  SubSeq(s, from, to)

\* the text with every whitespace run collapsed to one space, and trimmed
Normalize(text) == Trim(Squeeze(Spaced(text)))

\* C17: the lines wrapText returns, joined by single spaces, are the input
\* with every whitespace run collapsed to one space and trimmed, so every
\* line break stands where the input has whitespace and never inside a word;
\* no line is empty or starts or ends with a space; an empty or
\* all-whitespace input gives the empty string.
C17_WrapKeepsWords ==
  pc = "wrapped" =>
    /\ ReplaceAll(wrapped, NL, <<SP>>) = Normalize(wrapArgs.text)
    /\ \A i \in 1..Len(wrapped) :
         wrapped[i] = NL =>
           /\ Normalize(wrapArgs.text)[i] = SP
           /\ i > 1 /\ i < Len(wrapped)
           /\ wrapped[i - 1] \notin {SP, NL} /\ wrapped[i + 1] \notin {SP, NL}
    /\ (\A i \in 1..Len(wrapArgs.text) : IsSpace(wrapArgs.text[i])) => wrapped = <<>>

C17_Witness ==
  /\ pc = "wrapped"
  /\ wrapArgs = [text |-> <<"a", "n", SP, SP, "a">>, width |-> 3]
  /\ wrapped = <<"a", "n", NL, "a">>

RECURSIVE Unescape(_)
Unescape(s) ==
  IF s = <<>> THEN <<>>
  ELSE IF Head(s) = BS /\ Len(s) >= 2
    THEN <<CASE s[2] = "n" -> NL [] s[2] = "t" -> TAB [] OTHER -> s[2]>>
           \o Unescape(SubSeq(s, 3, Len(s)))
  ELSE <<Head(s)>> \o Unescape(Tail(s))

Specials(s) == Cardinality({i \in 1..Len(s) : s[i] \in {BS, DQ, NL, TAB}})

\* out is s escaped without loss
Lossless(out, s) ==
  /\ FourEscaped(out)
  /\ Unescape(out) = s
  /\ Len(out) = Len(s) + Specials(s)

\* C18: every field the reporters pass through escapeJSON has no raw newline
\* or tab and no quote or backslash outside an escape pair, gives back the
\* finding's field when the four escapes are undone, and is longer than the
\* field by one character for each backslash, quote, newline and tab in it.
C18_EscapeLossless ==
  /\ jsonDoc.printed =>
       \A i \in 1..Len(jsonDoc.issues) :
         /\ Lossless(jsonDoc.issues[i].title, Answered[i].title)
         /\ Lossless(jsonDoc.issues[i].description, Answered[i].description)
  /\ sarifDoc.printed =>
       /\ \A i \in 1..Len(sarifDoc.results) :
            /\ Lossless(sarifDoc.results[i].ruleId, Answered[i].id)
            /\ Lossless(sarifDoc.results[i].message, Answered[i].description)
            /\ Lossless(sarifDoc.results[i].uri, Answered[i].filePath)
       /\ \A k \in 1..Len(sarifDoc.rules) :
            \E i \in 1..Len(Answered) :
              /\ Lossless(sarifDoc.rules[k].id, Answered[i].id)
              /\ Lossless(sarifDoc.rules[k].name, Answered[i].title)
              /\ Lossless(sarifDoc.rules[k].fullDescription, Answered[i].description)
              /\ Lossless(sarifDoc.rules[k].category, Answered[i].category)

C18_Witness ==
  /\ sarifDoc.printed
  /\ Len(Answered) = 1
  /\ Answered[1].description = <<BS, DQ>>
  /\ sarifDoc.results[1].message = <<BS, BS, BS, DQ>>

\* C19: for an empty finding list outputJSON prints grade, filesScanned,
\* issueCount 0 and an empty issues array, outputSARIF prints empty rules and
\* results, and outputPretty prints the success message, no section and no
\* notice.
C19_EmptyList ==
  Answered = <<>> =>
    /\ jsonDoc.printed =>
         /\ DOMAIN jsonDoc = {"printed", "grade", "filesScanned", "issueCount", "issues"}
         /\ jsonDoc.grade = httpResp.body.grade
         /\ jsonDoc.filesScanned = httpResp.body.filesScanned
         /\ jsonDoc.issueCount = 0
         /\ jsonDoc.issues = <<>>
    /\ sarifDoc.printed => (sarifDoc.rules = <<>> /\ sarifDoc.results = <<>>)
    /\ prettyDoc.printed =>
         /\ prettyDoc.success
         /\ prettyDoc.sections = <<>>
         /\ ~prettyDoc.notice.printed

C19_Witness ==
  /\ prettyDoc.printed
  /\ Answered = <<>>
  /\ prettyDoc.success
  /\ prettyDoc.sections = <<>>

\* the files of the tree outside the pruned directories
Visited == {i \in 1..Len(tree) : ~tree[i].pruned}

Oversized == {i \in Visited : tree[i].size > FileSizeLimit}

\* scanner.Scan has returned without an error
Collected ==
  /\ env.scanner = "ok"
  /\ \E n \in 1..Len(stdout) : stdout[n] = "collecting"

\* C20: an oversized file is no error; the visited files are the submitted
\* files and the skipped ones, none in both; and the skipped count runScan
\* reports is the number of files excluded for size.
C20_SkippedCounted ==
  Collected =>
    /\ ret # "error"
    /\ Len(result.files) + result.skipped = Cardinality(Visited)
    /\ result.skipped = Cardinality(Oversized)
    /\ \A n \in 1..Len(result.files) : result.files[n].size <= FileSizeLimit
    /\ skipWarning = Cardinality(Oversized)

\* the same without the report of the count
C20_Partition ==
  Collected =>
    /\ ret # "error"
    /\ Len(result.files) + result.skipped = Cardinality(Visited)
    /\ result.skipped = Cardinality(Oversized)
    /\ \A n \in 1..Len(result.files) : result.files[n].size <= FileSizeLimit
    /\ Len(result.files) > 0 => skipWarning = Cardinality(Oversized)

\* path lies in directory or is it, component by component
Within(path, directory) ==
  /\ Len(path) >= Len(directory)
  /\ SubSeq(path, 1, Len(directory)) = directory

\* what a file-content route answered
FileAnswered == IF req.route = "idFiles" THEN res ELSE res.answer

\* the request got as far as the test of the path
PathTested ==
  /\ req.filePath # <<>>
  /\ req.localPath # NoPath
  /\ IF req.route = "idFiles" THEN req.idValid /\ req.repoFound ELSE res.mw.next

\* C21: a file-content route reads only a path that, normalised, is the
\* repository's directory or lies in it by path components; a request whose
\* path resolves anywhere else is answered 400 'Invalid file path' and
\* nothing is read.
C21_ReadsOnlyInsideRepo ==
  (pc = "responded" /\ req.route \in {"idFiles", "tokenFiles"}) =>
    /\ \A n \in 1..Len(FileAnswered.read) :
         Within(pathNormalize(FileAnswered.read[n]), pathNormalize(req.localPath))
    /\ (PathTested /\ ~Within(pathNormalize(req.localPath \o req.filePath),
                             pathNormalize(req.localPath))) =>
         /\ FileAnswered.status = 400
         /\ FileAnswered.error = "Invalid file path"
         /\ FileAnswered.read = <<>>

\* the share row of the request's token, if the table has one
SharesOfToken == IF req.token = "t" THEN req.db.shares ELSE <<>>

\* C22: the handler of a share-link route runs only when the table has a
\* share of the token that never expires or expires no earlier than now and
\* whose repository exists; an unknown token gets 404, an expired share 410,
\* a missing repository 404, each without next(); a share that never expires
\* is not answered 410.
C22_ShareTokenGate ==
  (pc = "responded" /\ req.route \in {"tokenRepo", "tokenFiles"}) =>
    /\ res.mw.next <=>
         /\ req.token # ""
         /\ SharesOfToken # <<>>
         /\ SharesOfToken[1].expiresAt = NoExpiry \/ SharesOfToken[1].expiresAt >= req.now
         /\ SharesOfToken[1].repositoryId \in req.db.repos
    /\ res.mw.next => (res.mw.share = SharesOfToken /\ res.mw.repo = <<SharesOfToken[1].repositoryId>>)
    /\ ~res.mw.next =>
         /\ res.answer.status = res.mw.status
         /\ res.answer.read = <<>>
         /\ res.mw.status \in {400, 404, 410}
    /\ (req.token # "" /\ SharesOfToken = <<>>) => res.mw.status = 404
    /\ res.mw.status = 410 <=>
         /\ req.token # "" /\ SharesOfToken # <<>>
         /\ SharesOfToken[1].expiresAt # NoExpiry
         /\ SharesOfToken[1].expiresAt < req.now
    /\ (req.token # "" /\ SharesOfToken # <<>> /\ res.mw.status # 410
          /\ SharesOfToken[1].repositoryId \notin req.db.repos) => res.mw.status = 404

C22_Witness ==
  /\ pc = "responded"
  /\ req.route = "tokenRepo"
  /\ req.token = "t"
  /\ req.db.shares = <<[expiresAt |-> NoExpiry, repositoryId |-> 1]>>
  /\ req.now = MaxTime
  /\ res.mw.next
  /\ res.answer.status = 200

\* C23: requireWriteAccess calls next() only for owner, admin and member, and
\* answers 403 without next() for a viewer, a missing role and every other
\* role.
C23_WriteRolesOnly ==
  (pc = "responded" /\ req.route = "write") =>
    IF req.workspaceRole \in {"owner", "admin", "member"}
      THEN res.next
      ELSE res.status = 403 /\ ~res.next

\* the session row of the request's cookie, if the table has one
SessionsOfCookie == IF req.cookie = "s" THEN req.db.sessions ELSE <<>>

\* the cookie names a session that has not expired and whose user exists
ValidSession ==
  /\ SessionsOfCookie # <<>>
  /\ SessionsOfCookie[1].expiresAt >= req.now
  /\ SessionsOfCookie[1].userId \in req.db.users

\* C24: requireAuth calls next() only for a cookie that names a session not
\* expired whose user exists, with req.user that user; otherwise it sends one
\* response, 401 or 500, without next(), and clears the cookie when the
\* session is unknown or expired or its user is missing.
C24_AuthGate ==
  (pc = "responded" /\ req.route = "auth") =>
    /\ res.next => /\ ValidSession
                   /\ res.sent = 0
                   /\ res.user = <<reqUser(UserRow(SessionsOfCookie[1].userId))>>
    /\ ~res.next => /\ res.sent = 1
                    /\ res.status \in {401, 500}
                    /\ res.user = <<>>
    /\ (ValidSession /\ req.dbError = "none") => res.next
    /\ res.status = 500 => req.dbError # "none"
    /\ (req.cookie # "" /\ req.dbError = "none" /\ ~ValidSession) =>
         (res.status = 401 /\ res.cleared)

C24_Witness ==
  /\ pc = "responded"
  /\ req.route = "auth"
  /\ req.cookie = "s"
  /\ req.dbError = "none"
  /\ SessionsOfCookie # <<>>
  /\ SessionsOfCookie[1].expiresAt = req.now
  /\ res.next
  /\ res.user = <<reqUser(UserRow(SessionsOfCookie[1].userId))>>

\* C25: a reply that is no JSON is answered 200 with no issues, score 0,
\* grade A and the number of files sent; 500 is answered only when the model
\* call fails or returns no text block, 400 only for a body without files.
C25_ScanRouteStatuses ==
  (pc = "responded" /\ req.route = "scan") =>
    /\ (req.nFiles > 0 /\ req.reply.kind = "unparseable") =>
         /\ res.status = 200
         /\ res.body = [issues |-> <<>>, grade |-> "A", score |-> 0,
                        filesScanned |-> req.nFiles]
    /\ res.status = 500 => req.reply.kind \in {"apiError", "noText"}
    /\ res.status = 400 <=> req.nFiles = 0

GradeRank(grade) ==
  CASE grade = "A" -> 1 [] grade = "B" -> 2 [] grade = "C" -> 3 [] grade = "D" -> 4
    [] grade = "F" -> 5

\* C26: the score is 10 critical + 5 high + 2 medium + low, the grade is A up
\* to 5, B up to 15, C up to 30, D up to 60 and F above; one more finding
\* never lowers the score and never improves the grade.
C26_GradeFormula ==
  (pc = "responded" /\ req.route = "grade") =>
    /\ res.before.score = 10 * req.critical + 5 * req.high + 2 * req.medium + req.low
    /\ res.before.grade =
         (CASE res.before.score <= 5 -> "A"
            [] res.before.score \in 6..15 -> "B"
            [] res.before.score \in 16..30 -> "C"
            [] res.before.score \in 31..60 -> "D"
            [] res.before.score > 60 -> "F")
    /\ res.after.score >= res.before.score
    /\ GradeRank(res.after.grade) >= GradeRank(res.before.grade)

C26_Witness ==
  /\ pc = "responded"
  /\ req.route = "grade"
  /\ res.before = [grade |-> "D", score |-> 60]
  /\ res.after = [grade |-> "F", score |-> 61]

\* what a by-file route answered
GroupsAnswered == IF req.route = "idByFile" THEN res ELSE res.answer

\* the key of a row's group
GroupKey(row) == IF row.filePath = "" THEN "No file specified" ELSE row.filePath

\* the request reached the select of the issues
IssuesSelected ==
  /\ pc = "responded"
  /\ req.route \in {"idByFile", "tokenByFile"}
  /\ IF req.route = "idByFile" THEN req.idValid /\ req.repoFound ELSE res.mw.next

\* the answer groups every row once under its key, with matching counts, in
\* non-increasing order of the counts
Grouped(answer) ==
  /\ answer.status = 200
  /\ \A i \in 1..Len(req.rows) :
       Cardinality({<<k, n>> \in (1..Len(answer.groups)) \X (1..Len(req.rows)) :
                      /\ n <= Len(answer.groups[k].issues)
                      /\ answer.groups[k].issues[n] = req.rows[i]}) = 1
  /\ \A k \in 1..Len(answer.groups) :
       /\ answer.groups[k].issueCount = Len(answer.groups[k].issues)
       /\ answer.groups[k].issueCount > 0
       /\ \A n \in 1..Len(answer.groups[k].issues) :
            GroupKey(answer.groups[k].issues[n]) = answer.groups[k].filePath
       /\ \A j \in 1..Len(answer.groups) :
            /\ j # k => answer.groups[j].filePath # answer.groups[k].filePath
            /\ j < k => answer.groups[j].issueCount >= answer.groups[k].issueCount
  /\ Len(req.rows) =
       Cardinality({<<k, n>> \in (1..Len(answer.groups)) \X (1..Len(req.rows)) :
                      n <= answer.groups[k].issueCount})

\* C27: the by-file routes put every issue of the repository in exactly one
\* group, keyed by its filePath or 'No file specified'; each issueCount is
\* the length of the group's list, the counts sum to the number of issues and
\* the groups come in non-increasing order of issueCount.
C27_GroupedByFile ==
  IssuesSelected => Grouped(GroupsAnswered)

\* the same for repositories none of whose issues lies in a file named like
\* a member of Object.prototype
C27_GroupedUnlessInherited ==
  (IssuesSelected /\ \A i \in 1..Len(req.rows) : req.rows[i].filePath \notin InheritedKeys) =>
    Grouped(GroupsAnswered)

\* C28: for one scan response outputSARIF and outputPretty print the same on
\* every run: the document printed is the one printed for every order in
\* which the rules, and the per-file sections, can come out.
C28_SameOutputEveryRun ==
  /\ sarifDoc.printed =>
       \A order \in MapOrders(DOMAIN buildRuleMap(Answered, 1, NoRules)) :
         outputSARIF(httpResp.body, order) = sarifDoc
  /\ prettyDoc.printed =>
       \A fileOrder \in MapOrders({prettyDoc.sections[k].file : k \in 1..Len(prettyDoc.sections)}) :
         fileOrder = [k \in 1..Len(prettyDoc.sections) |-> prettyDoc.sections[k].file]

\* the lines of a text, split at NL
RECURSIVE SplitLines(_, _)
SplitLines(s, line) ==
  IF s = <<>> THEN <<line>>
  ELSE IF Head(s) = NL THEN <<line>> \o SplitLines(Tail(s), <<>>)
  ELSE SplitLines(Tail(s), Append(line, Head(s)))

WrappedLines == IF wrapped = <<>> THEN <<>> ELSE SplitLines(wrapped, <<>>)

RECURSIVE FirstWord(_)
FirstWord(line) ==
  IF line = <<>> \/ Head(line) = SP THEN <<>> ELSE <<Head(line)>> \o FirstWord(Tail(line))

\* lines are at most the width long unless they are one word, and every
\* line after the first starts with a word that did not fit on the line before;
\* size gives the length of a text
GreedyBy(size(_)) ==
  /\ \A k \in 1..Len(WrappedLines) :
       \/ size(WrappedLines[k]) <= wrapArgs.width
       \/ FirstWord(WrappedLines[k]) = WrappedLines[k]
  /\ \A k \in 2..Len(WrappedLines) :
       size(WrappedLines[k - 1]) + 1 + size(FirstWord(WrappedLines[k])) > wrapArgs.width

\* C29: every line of wrapText(text, W) has at most W characters unless it is
\* one word longer than W, and the first word of every line after the first
\* would not have fitted, with its space, on the line before.
C29_GreedyInCharacters ==
  pc = "wrapped" => GreedyBy(Len)

\* the same with lengths counted in bytes, as len counts them
C29_GreedyInBytes ==
  pc = "wrapped" => GreedyBy(byteLen)

\* C30: after every fetchAuth that completed, currentWorkspace is null or an
\* entry of workspaces and isLoading is false; after one that failed or got a
\* response that is not ok, user is null, workspaces is empty and
\* currentWorkspace is null.
C30_CurrentWorkspaceListed ==
  /\ lastFetch \in {"ok", "failed"} =>
       /\ ~isLoading
       /\ \/ currentWorkspace = NoWorkspace
          \/ \E i \in 1..Len(workspaces) : workspaces[i] = currentWorkspace
  /\ lastFetch = "failed" =>
       /\ user = NoUser
       /\ workspaces = <<>>
       /\ currentWorkspace = NoWorkspace

\* the same but for an ok response without workspaces
C30_ListedUnlessEmptied ==
  /\ lastFetch \in {"ok", "failed"} =>
       /\ ~isLoading
       /\ \/ currentWorkspace = NoWorkspace
          \/ \E i \in 1..Len(workspaces) : workspaces[i] = currentWorkspace
          \/ lastFetch = "ok" /\ workspaces = <<>>
  /\ lastFetch = "failed" =>
       /\ user = NoUser
       /\ workspaces = <<>>
       /\ currentWorkspace = NoWorkspace

====
